---- MODULE Spec2Model ----
(***************************************************************************)
(* A model of WAFManager (src/waf_manager.py): the rule store kept in the  *)
(* rules directory, the loaded rule-set, the start/stop lifecycle and the  *)
(* request inspector.                                                      *)
(*                                                                         *)
(* Strings are sequences of tokens.  A token is an atomic piece of text;   *)
(* the alphabets below are chosen so that no token's text occurs inside    *)
(* another token or across a token boundary, which makes substring search  *)
(* on the text the same as contiguous-subsequence search on the tokens.    *)
(***************************************************************************)
EXTENDS Integers, Sequences, FiniteSets, TLC

VARIABLES
  fs,            \* the rules directory: file name -> bytes written to it
  rules,         \* self.rules: None, or the list of (rule_file, line) loaded
  dir_listable,  \* environment: os.listdir(self.rules_dir) is permitted
  last,          \* the last call made on the manager, and what it returned
  adders,        \* the add_rule calls in progress in other managers' processes
  racers         \* the calls in progress that read or remove a rule file

vars == <<fs, rules, dir_listable, last, adders, racers>>

(***************************************************************************)
(* Bounds of the model.                                                    *)
(***************************************************************************)
\* The largest number of files the rules directory holds.
MaxFiles == 2

(***************************************************************************)
(* Python string operations, on token sequences.                           *)
(***************************************************************************)
\* str.lower(), token by token.
LowerTok(t) ==
  CASE t = "A" -> "a"
    [] t = "EVIL" -> "evil"
    [] t = "?id=1 OR 1=1" -> "?id=1 or 1=1"
    [] t = "X-A" -> "x-a"
    [] t = "X-B" -> "x-b"
    [] OTHER -> t

Lower(s) == [i \in 1..Len(s) |-> LowerTok(s[i])]

\* The characters str.strip() removes.
Whitespace == {" ", "\n", "\r"}

RECURSIVE LStrip(_)
LStrip(s) == IF s # <<>> /\ Head(s) \in Whitespace THEN LStrip(Tail(s)) ELSE s

RECURSIVE RStrip(_)
RStrip(s) ==
  IF s # <<>> /\ s[Len(s)] \in Whitespace THEN RStrip(SubSeq(s, 1, Len(s) - 1)) ELSE s

\* str.strip()
Strip(s) == RStrip(LStrip(s))

\* needle in haystack, for strings
Contains(hay, needle) ==
  \E i \in 0..(Len(hay) - Len(needle)) :
    \A j \in 1..Len(needle) : hay[i + j] = needle[j]

\* x in list
InList(x, l) == \E i \in 1..Len(l) : l[i] = x

\* list.count(x)
Count(l, x) == Cardinality({i \in 1..Len(l) : l[i] = x})

\* name.endswith(('.conf', '.rule'))
EndsWithExt(name) == name # <<>> /\ name[Len(name)] \in {".conf", ".rule"}

\* The tokens os.path.splitext takes for an extension: a dot and what follows.
ExtTokens == {".conf", ".rule", ".tmp"}

\* os.path.splitext(file)[0]: the last extension is dropped, unless the name
\* is nothing but that extension (a leading dot starts no extension).
SplitExt(file) ==
  IF Len(file) > 1 /\ file[Len(file)] \in ExtTokens
  THEN SubSeq(file, 1, Len(file) - 1)
  ELSE file

\* All orders in which os.listdir may return the entries S.
RECURSIVE Perms(_)
Perms(S) ==
  IF S = {} THEN {<<>>}
  ELSE UNION {{<<x>> \o p : p \in Perms(S \ {x})} : x \in S}

(***************************************************************************)
(* Text files.  open(.., 'w') writes the string as it is (POSIX);          *)
(* open(.., 'r') reads with universal newlines: "\r\n" and "\r" come back  *)
(* as "\n".                                                                *)
(***************************************************************************)
RECURSIVE ReadText(_)
ReadText(bytes) ==
  IF bytes = <<>> THEN <<>>
  ELSE IF Head(bytes) = "\r"
       THEN IF Len(bytes) > 1 /\ bytes[2] = "\n"
            THEN <<"\n">> \o ReadText(Tail(Tail(bytes)))
            ELSE <<"\n">> \o ReadText(Tail(bytes))
       ELSE <<Head(bytes)>> \o ReadText(Tail(bytes))

\* "for line in f": the lines of the text, each without its line end.
RECURSIVE SplitLines(_)
SplitLines(text) ==
  IF text = <<>> THEN <<>>
  ELSE IF \E i \in 1..Len(text) : text[i] = "\n"
       THEN LET k == CHOOSE i \in 1..Len(text) :
                       text[i] = "\n" /\ \A j \in 1..(i - 1) : text[j] # "\n"
            IN  <<SubSeq(text, 1, k - 1)>> \o SplitLines(SubSeq(text, k + 1, Len(text)))
       ELSE <<text>>

(***************************************************************************)
(* Regular expressions, on the pattern alphabet of the model: words, "("   *)
(* and ")", "#", blanks and line ends.                                     *)
(***************************************************************************)
RECURSIVE Balanced(_, _)
Balanced(p, depth) ==
  IF p = <<>> THEN depth = 0
  ELSE IF Head(p) = "(" THEN Balanced(Tail(p), depth + 1)
  ELSE IF Head(p) = ")" THEN depth > 0 /\ Balanced(Tail(p), depth - 1)
  ELSE Balanced(Tail(p), depth)

Compiles_anything(p) == TRUE

\* re.compile(p) does not raise re.error: every group is opened and closed.
Compiles(p) == Balanced(p, 0)

\* The text a compiled pattern matches: its groups are transparent.
RECURSIVE Literal(_)
Literal(p) ==
  IF p = <<>> THEN <<>>
  ELSE IF Head(p) \in {"(", ")"} THEN Literal(Tail(p))
  ELSE <<Head(p)>> \o Literal(Tail(p))

\* re.search(p, value, re.IGNORECASE) for a compilable p
Search(p, value) == Contains(Lower(value), Lower(Literal(p)))

(***************************************************************************)
(* The inputs the callers give.                                            *)
(***************************************************************************)
\* Rule names: plain, differing in case only, carrying a suffix, empty,
\* and with path-traversal characters.
PlainNames == {<<"a">>, <<"A">>}
SuffixedNames == {<<"a", ".conf">>, <<"a", ".rule">>}
TraversalNames == {<<"..", "a">>, <<"a", "/", "A">>, <<"a", "\\", "A">>}
RuleNames == PlainNames \cup SuffixedNames \cup TraversalNames \cup {<<>>, <<" ">>}

\* Rule contents.
K_evil == <<"evil">>
\* a comment, a pattern, and two lines that compile only together
K_mixed == <<"#", "c", "\n", "evil", "\n", "(", "\n", ")">>
\* two patterns separated by a carriage return
K_cr == <<"bad", "\r", "evil">>
GoodContents == {K_evil, K_mixed, K_cr}
BadContents == {<<>>, <<" ", "\n">>, <<"(", "evil">>}
Contents == GoodContents \cup BadContents

\* Requests.
Urls ==
  { <<>>,
    <<"h.io">>,
    <<"h.io", "/", "evil">>,
    <<"http://", "/", "evil">>,
    <<"http://", "h.io", "/">>,
    <<"http://", "h.io", "/", "EVIL">>,
    <<"http://", "h.io", "/", "?id=1 OR 1=1">>,
    <<"ftp://", "h.io", "/">> }
\* headers: the items of the dict, in its order; None and {} are <<>>
HeaderSets == { <<>>, << [name |-> "X-A", value |-> <<"bad">>] >> }
\* body: None and "" are <<>>
Bodies == { <<>>, <<"evil">> }

(***************************************************************************)
(* The state.                                                              *)
(***************************************************************************)
\* self.rules = None
NoneRules == [is_none |-> TRUE, items |-> <<>>]
\* self.rules = items
ListRules(items) == [is_none |-> FALSE, items |-> items]

NoVerdict ==
  [keys |-> {}, blocked |-> FALSE, status_code |-> 0, matched_rules |-> <<>>,
   score |-> 0, action |-> "", error |-> ""]

\* The last call: the operation, the rule name it was given, and what came
\* back: a (success, message) pair, a verdict, or an exception raised to the
\* caller.  The strings and lists that list_rules and get_rule_content return
\* are functions of the state: list_rules_result, get_rule_content_result.
NoCall ==
  [op |-> "__init__", name |-> <<>>, raised |-> FALSE, ok |-> FALSE, msg |-> "",
   verdict |-> NoVerdict]

Call(op) == [NoCall EXCEPT !.op = op]
Returned(call, ok, msg) == [call EXCEPT !.ok = ok, !.msg = msg]
Raised(call, msg) == [call EXCEPT !.raised = TRUE, !.msg = msg]

\* the rules directory with no file in it
EmptyDir == [f \in {} |-> <<>>]

\* os.path.exists(os.path.join(self.rules_dir, file))
Exists(dir, file) == file \in DOMAIN dir

\* the directory after open(file, 'w').write(bytes), or os.rename onto file
WriteFile(dir, file, bytes) ==
  [f \in DOMAIN dir \cup {file} |-> IF f = file THEN bytes ELSE dir[f]]

\* the directory after os.remove(file)
RemoveFile(dir, file) == [f \in DOMAIN dir \ {file} |-> dir[f]]

\* os.listdir(self.rules_dir), in any order
ListDir(dir) == Perms(DOMAIN dir)

(***************************************************************************)
(* get_status                                                              *)
(***************************************************************************)
get_status_of(r) == ~r.is_none
get_status == get_status_of(rules)

(***************************************************************************)
(* _initialize_waf                                                         *)
(***************************************************************************)
\* The built-in catalogue self.patterns, in the dict's order.  A pattern is
\* named by its category and its place in the category's list.
patterns ==
  << [category |-> "sqli", pattern |-> "sqli[0]"],
     [category |-> "sqli", pattern |-> "sqli[1]"],
     [category |-> "sqli", pattern |-> "sqli[2]"],
     [category |-> "sqli", pattern |-> "sqli[3]"],
     [category |-> "sqli", pattern |-> "sqli[4]"],
     [category |-> "xss", pattern |-> "xss[0]"],
     [category |-> "xss", pattern |-> "xss[1]"],
     [category |-> "xss", pattern |-> "xss[2]"],
     [category |-> "xss", pattern |-> "xss[3]"],
     [category |-> "xss", pattern |-> "xss[4]"],
     [category |-> "path_traversal", pattern |-> "path_traversal[0]"],
     [category |-> "path_traversal", pattern |-> "path_traversal[1]"],
     [category |-> "path_traversal", pattern |-> "path_traversal[2]"] >>

RECURSIVE LoadLines_abort(_, _)
LoadLines_abort(rule_file, lines) ==
  IF \E i \in 1..Len(lines) :
       LET line == Strip(lines[i])
       IN  line # <<>> /\ Head(line) # "#" /\ ~Compiles(line)
  THEN <<>>
  ELSE IF lines = <<>> THEN <<>>
  ELSE LET line == Strip(Head(lines))
           rest == LoadLines_abort(rule_file, Tail(lines))
       IN  IF line # <<>> /\ Head(line) # "#"
           THEN <<[file |-> rule_file, pattern |-> line]>> \o rest
           ELSE rest

\* The rules one file contributes: its stripped, non-blank, non-comment lines
\* that compile, in file order.
RECURSIVE LoadLines(_, _)
LoadLines(rule_file, lines) ==
  IF lines = <<>> THEN <<>>
  ELSE LET line == Strip(Head(lines))
           rest == LoadLines(rule_file, Tail(lines))
       IN  IF line # <<>> /\ Head(line) # "#" /\ Compiles(line)
           THEN <<[file |-> rule_file, pattern |-> line]>> \o rest
           ELSE rest

LoadFile(dir, rule_file) == LoadLines(rule_file, SplitLines(ReadText(dir[rule_file])))

\* The rules of the listed files that end in .conf or .rule, in listing order.
RECURSIVE LoadFiles(_, _)
LoadFiles(dir, listing) ==
  IF listing = <<>> THEN <<>>
  ELSE IF EndsWithExt(Head(listing))
       THEN LoadFile(dir, Head(listing)) \o LoadFiles(dir, Tail(listing))
       ELSE LoadFiles(dir, Tail(listing))

\* self.rules is emptied first; a directory that cannot be listed leaves it
\* empty and returns False.
initialize_waf(dir, listable, listing) ==
  IF listable
  THEN [rules |-> ListRules(LoadFiles(dir, listing)), ok |-> TRUE]
  ELSE [rules |-> ListRules(<<>>), ok |-> FALSE]

(***************************************************************************)
(* __init__ : the directories are created and _initialize_waf is called.   *)
(***************************************************************************)
\* The managers of other processes that share the rules directory.
Managers == {1, 2}

\* an add_rule call of such a manager: where it is in the code, its
\* arguments, the file its open descriptor f refers to, the manager's own
\* self.rules, and what the call gave back
Adder(pc, rule_content, rule_name) ==
  [pc |-> pc, rule_content |-> rule_content, rule_name |-> rule_name,
   fd |-> "closed", rules |-> initialize_waf(EmptyDir, TRUE, <<>>).rules,
   raised |-> FALSE, ok |-> FALSE, msg |-> ""]

\* no call that reads or removes a rule file is in progress
NoRacers == [pc |-> "idle"]

\* no such call is in progress
NoAdders == [m \in Managers |-> Adder("idle", <<>>, <<>>)]

Init ==
  /\ fs = EmptyDir
  /\ dir_listable = TRUE
  /\ rules = initialize_waf(EmptyDir, TRUE, <<>>).rules
  /\ last = NoCall
  /\ adders = NoAdders
  /\ racers = NoRacers

(***************************************************************************)
(* start_waf, stop_waf                                                     *)
(***************************************************************************)
\* start_waf without its "already running" check
start_waf_result_restarts(r, dir, listable, listing) ==
  LET init == initialize_waf(dir, listable, listing)
  IN  IF ~init.ok
      THEN [rules |-> init.rules, ok |-> FALSE, msg |-> "Failed to initialize WAF"]
      ELSE [rules |-> init.rules, ok |-> TRUE, msg |-> "WAF started successfully"]

start_waf_result(r, dir, listable, listing) ==
  IF get_status_of(r)
  THEN [rules |-> r, ok |-> FALSE, msg |-> "WAF is already running"]
  ELSE LET init == initialize_waf(dir, listable, listing)
       IN  IF ~init.ok
           THEN [rules |-> init.rules, ok |-> FALSE, msg |-> "Failed to initialize WAF"]
           ELSE [rules |-> init.rules, ok |-> TRUE, msg |-> "WAF started successfully"]

start_waf ==
  \E listing \in ListDir(fs) :
    \E res \in {start_waf_result(rules, fs, dir_listable, listing)} :
        /\ rules' = res.rules
        /\ last' = Returned(Call("start_waf"), res.ok, res.msg)
        /\ UNCHANGED <<fs, dir_listable, adders, racers>>

\* stop_waf that leaves the loaded rules in place
stop_waf_result_keeps_rules(r) ==
  [rules |-> r, ok |-> TRUE, msg |-> "WAF stopped successfully"]

stop_waf_result(r) ==
  [rules |-> NoneRules, ok |-> TRUE, msg |-> "WAF stopped successfully"]

stop_waf ==
  LET res == stop_waf_result(rules)
  IN  /\ rules' = res.rules
      /\ last' = Returned(Call("stop_waf"), res.ok, res.msg)
      /\ UNCHANGED <<fs, dir_listable, adders, racers>>

(***************************************************************************)
(* list_rules, get_rule_content                                            *)
(***************************************************************************)
\* the names of the listed files that end in .conf or .rule, extension removed
RECURSIVE StripListing(_)
StripListing(listing) ==
  IF listing = <<>> THEN <<>>
  ELSE IF EndsWithExt(Head(listing))
       THEN <<SplitExt(Head(listing))>> \o StripListing(Tail(listing))
       ELSE StripListing(Tail(listing))

\* a listing that raises is caught and gives []
list_rules_result(listable, listing) == IF listable THEN StripListing(listing) ELSE <<>>

list_rules ==
  /\ last' = Call("list_rules")
  /\ UNCHANGED <<fs, rules, dir_listable, adders, racers>>

get_rule_content_result(dir, rule_name) ==
  IF rule_name = <<>> THEN <<>>
  ELSE LET rule_path ==
             IF ~EndsWithExt(rule_name)
             THEN IF Exists(dir, rule_name \o <<".conf">>)
                  THEN rule_name \o <<".conf">>
                  ELSE rule_name \o <<".rule">>
             ELSE rule_name
       IN  IF ~Exists(dir, rule_path) THEN <<>> ELSE ReadText(dir[rule_path])

get_rule_content ==
  /\ last' = Call("get_rule_content")
  /\ UNCHANGED <<fs, rules, dir_listable, adders, racers>>

(***************************************************************************)
(* add_rule                                                                *)
(***************************************************************************)
\* '..' in rule_name or '/' in rule_name or '\\' in rule_name
HasTraversal_never(rule_name) == FALSE

HasTraversal(rule_name) == \E i \in 1..Len(rule_name) : rule_name[i] \in {"..", "/", "\\"}

\* rule_name.lower() in [r.lower() for r in self.list_rules()]
IsDuplicate(rule_name, existing) ==
  \E i \in 1..Len(existing) : Lower(existing[i]) = Lower(rule_name)

\* the file name the rule is stored under
AddPath(rule_name) == IF EndsWithExt(rule_name) THEN rule_name ELSE rule_name \o <<".rule">>

\* the directory once the temporary file is written and renamed into place
AddedDir(dir, rule_content, rule_name) ==
  LET rule_path == AddPath(rule_name)
      temp_path == rule_path \o <<".tmp">>
      written == WriteFile(dir, temp_path, rule_content)
  IN  RemoveFile(WriteFile(written, rule_path, written[temp_path]), temp_path)

\* the names list_rules gives the duplicate check, which does not depend on
\* their order
ExistingRules(dir, listable) ==
  list_rules_result(listable, CHOOSE listing \in ListDir(dir) : TRUE)

Reloaded_never(r, dir, listable) == {r}

Reloaded_arming(r, dir, listable) ==
  {initialize_waf(dir, listable, listing).rules : listing \in ListDir(dir)}

\* what the reload after a successful add or remove may leave in self.rules,
\* one outcome for each order os.listdir may give: nothing changes when stopped
Reloaded(r, dir, listable) ==
  IF get_status_of(r)
  THEN {initialize_waf(dir, listable, listing).rules : listing \in ListDir(dir)}
  ELSE {r}

\* the directory add_rule leaves, and what it returns or raises
add_rule_result(dir, listable, rule_content, rule_name) ==
  LET unchanged(raised, msg) == [fs |-> dir, raised |-> raised, ok |-> FALSE, msg |-> msg]
      rule_path == AddPath(rule_name)
      temp_path == rule_path \o <<".tmp">>
      written == WriteFile(dir, temp_path, rule_content)
  IN  IF Strip(rule_name) = <<>>
      THEN unchanged(TRUE, "Rule name must be a non-empty string")
      ELSE IF HasTraversal(rule_name)
      THEN unchanged(TRUE, "Invalid rule name: cannot contain path traversal characters")
      ELSE IF IsDuplicate(rule_name, ExistingRules(dir, listable))
      THEN unchanged(FALSE, "A rule named ... already exists")
      ELSE IF Strip(rule_content) = <<>>
      THEN unchanged(FALSE, "Rule content cannot be empty")
      ELSE IF ~Compiles(rule_content)
      THEN unchanged(FALSE, "Invalid regex pattern")
      ELSE IF Exists(written, rule_path)
      THEN [fs |-> RemoveFile(written, temp_path), raised |-> FALSE,
            ok |-> FALSE, msg |-> "Rule ... was created by another process"]
      ELSE [fs |-> AddedDir(dir, rule_content, rule_name), raised |-> FALSE,
            ok |-> TRUE, msg |-> "Rule ... added successfully"]

\* add_rule(rule_content, rule_name): the rules are reloaded after a success
add_rule_call(rule_content, rule_name) ==
  \E res \in {add_rule_result(fs, dir_listable, rule_content, rule_name)} :
  LET call == [Call("add_rule") EXCEPT !.name = rule_name]
  IN  /\ Cardinality(DOMAIN res.fs) <= MaxFiles
      /\ fs' = res.fs
      /\ rules' \in (IF res.ok THEN Reloaded(rules, res.fs, dir_listable) ELSE {rules})
      /\ last' = IF res.raised THEN Raised(call, res.msg)
                 ELSE Returned(call, res.ok, res.msg)
      /\ UNCHANGED <<dir_listable, adders, racers>>

add_rule == \E rule_content \in Contents, rule_name \in RuleNames :
              add_rule_call(rule_content, rule_name)

(***************************************************************************)
(* remove_rule                                                             *)
(***************************************************************************)
\* the file remove_rule deletes, or <<>> when it finds none
RemovePath(dir, rule_name) ==
  LET named == IF EndsWithExt(rule_name) THEN rule_name ELSE rule_name \o <<".conf">>
      other == SubSeq(named, 1, Len(named) - 1) \o <<".rule">>
  IN  IF Exists(dir, named) THEN named
      ELSE IF named[Len(named)] = ".conf" /\ Exists(dir, other) THEN other
      ELSE <<>>

\* the directory remove_rule leaves, and what it returns
remove_rule_result(dir, rule_name) ==
  IF Strip(rule_name) = <<>>
  THEN [fs |-> dir, ok |-> FALSE, msg |-> "Rule name cannot be empty"]
  ELSE LET rule_path == RemovePath(dir, rule_name)
       IN  IF rule_path = <<>>
           THEN [fs |-> dir, ok |-> FALSE, msg |-> "Rule not found"]
           ELSE [fs |-> RemoveFile(dir, rule_path), ok |-> TRUE,
                 msg |-> "Rule ... removed successfully"]

\* remove_rule(rule_name): the rules are reloaded after a success
remove_rule_call(rule_name) ==
  \E res \in {remove_rule_result(fs, rule_name)} :
      /\ fs' = res.fs
      /\ rules' \in (IF res.ok THEN Reloaded(rules, res.fs, dir_listable) ELSE {rules})
      /\ last' = Returned([Call("remove_rule") EXCEPT !.name = rule_name], res.ok, res.msg)
      /\ UNCHANGED <<dir_listable, adders, racers>>

remove_rule == \E rule_name \in RuleNames : remove_rule_call(rule_name)

(***************************************************************************)
(* _check_patterns                                                         *)
(***************************************************************************)
\* re.search(pattern, value, re.IGNORECASE) for the built-in catalogue, on the
\* request alphabet of the model: the only token a built-in pattern matches
\* is the tautology "or 1=1", which the fifth sqli pattern finds.
BuiltinSearch(pattern, value) ==
  \/ /\ pattern = "sqli[4]"
     /\ \E i \in 1..Len(value) : value[i] = "?id=1 or 1=1"
  \/ /\ pattern = "xss[0]"
     /\ \E i \in 1..Len(value) : value[i] = "<script>x</script>"
  \/ /\ pattern \in {"path_traversal[0]", "path_traversal[1]", "path_traversal[2]"}
     /\ \E i \in 1..Len(value) : value[i] = "../etc/passwd"

RECURSIVE BuiltinMatches(_, _)
BuiltinMatches(catalogue, value) ==
  IF catalogue = <<>> THEN <<>>
  ELSE LET rest == BuiltinMatches(Tail(catalogue), value)
       IN  IF BuiltinSearch(Head(catalogue).pattern, value)
           THEN <<[category |-> Head(catalogue).category,
                   pattern |-> <<Head(catalogue).pattern>>,
                   value |-> value, source |-> <<>>]>> \o rest
           ELSE rest

RECURSIVE CustomMatches(_, _)
CustomMatches(items, value) ==
  IF items = <<>> THEN <<>>
  ELSE LET rest == CustomMatches(Tail(items), value)
       IN  IF Search(Head(items).pattern, value)
           THEN <<[category |-> "custom_rule", pattern |-> Head(items).pattern,
                   value |-> value, source |-> Head(items).file]>> \o rest
           ELSE rest

check_patterns_custom_first(r, value) ==
  IF value = <<>> THEN <<>>
  ELSE (IF ~r.is_none THEN CustomMatches(r.items, Lower(value)) ELSE <<>>)
         \o BuiltinMatches(patterns, Lower(value))

check_patterns(r, value) ==
  IF value = <<>> THEN <<>>
  ELSE BuiltinMatches(patterns, Lower(value))
         \o (IF ~r.is_none THEN CustomMatches(r.items, Lower(value)) ELSE <<>>)

(***************************************************************************)
(* test_request                                                            *)
(***************************************************************************)
\* urllib.parse.urlparse on the request alphabet: a scheme token first, and
\* the host that follows it
Schemes == {"http://", "https://", "ftp://"}
Hosts == {"h.io"}
urlparse(url) ==
  LET scheme == IF url # <<>> /\ url[1] \in Schemes THEN url[1] ELSE ""
  IN  [scheme |-> scheme,
       netloc |-> IF scheme # "" /\ Len(url) >= 2 /\ url[2] \in Hosts THEN url[2] ELSE ""]

\* [f"{label}{m['pattern']}" for m in matches]
Labelled(label, matches) == [i \in 1..Len(matches) |-> label \o matches[i].pattern]

RECURSIVE HeaderMatches(_, _)
RECURSIVE HeaderMatches_reversed(_, _)
HeaderMatches_reversed(r, headers) ==
  IF headers = <<>> THEN <<>>
  ELSE LET h == Head(headers)
       IN  HeaderMatches_reversed(r, Tail(headers))
             \o Labelled(<<"Header ", h.name, ": ">>,
                         check_patterns(r, <<h.name, ": ">> \o h.value))

HeaderMatches(r, headers) ==
  IF headers = <<>> THEN <<>>
  ELSE LET h == Head(headers)
       IN  Labelled(<<"Header ", h.name, ": ">>,
                    check_patterns(r, <<h.name, ": ">> \o h.value))
             \o HeaderMatches(r, Tail(headers))

\* test_request without its "not running" check
test_request_result_unguarded(r, url, headers, data) ==
  IF url = <<>>
  THEN [raised |-> TRUE, msg |-> "URL must be a non-empty string", verdict |-> NoVerdict]
  ELSE [raised |-> FALSE, msg |-> "",
        verdict |-> [NoVerdict EXCEPT
           !.keys = {"blocked", "status_code", "matched_rules", "score", "action"},
           !.status_code = 200, !.action = "PASS"]]

test_request_result(r, url, headers, data) ==
  IF ~get_status_of(r)
  THEN [raised |-> TRUE, msg |-> "WAF is not running", verdict |-> NoVerdict]
  ELSE IF url = <<>>
  THEN [raised |-> TRUE, msg |-> "URL must be a non-empty string", verdict |-> NoVerdict]
  ELSE LET parsed == urlparse(url)
           coerced == IF url[1] \in {"http://", "https://"} THEN url ELSE <<"http://">> \o url
           matches == Labelled(<<"URL: ">>, check_patterns(r, coerced))
                        \o HeaderMatches(r, headers)
                        \o (IF data # <<>>
                            THEN Labelled(<<"Body: ">>, check_patterns(r, data))
                            ELSE <<>>)
       IN  IF parsed.scheme = "" \/ parsed.netloc = ""
           THEN [raised |-> FALSE, msg |-> "",
                 verdict |-> [NoVerdict EXCEPT
                    !.keys = {"blocked", "matched_rules", "score", "error"},
                    !.error = "Invalid URL format. Must include scheme (http/https) and hostname"]]
           ELSE IF matches # <<>>
           THEN [raised |-> FALSE, msg |-> "",
                 verdict |-> [NoVerdict EXCEPT
                    !.keys = {"blocked", "status_code", "matched_rules", "score", "action"},
                    !.blocked = TRUE, !.status_code = 403, !.matched_rules = matches,
                    !.score = Len(matches), !.action = "DENY"]]
           ELSE [raised |-> FALSE, msg |-> "",
                 verdict |-> [NoVerdict EXCEPT
                    !.keys = {"blocked", "status_code", "matched_rules", "score", "action"},
                    !.status_code = 200, !.action = "PASS"]]

\* test_request(url, "GET", headers, data)
test_request_call(url, headers, data) ==
  \E res \in {test_request_result(rules, url, headers, data)} :
      /\ last' = IF res.raised THEN Raised(Call("test_request"), res.msg)
                 ELSE [Call("test_request") EXCEPT !.verdict = res.verdict]
      /\ UNCHANGED <<fs, rules, dir_listable, adders, racers>>

test_request == \E url \in Urls, headers \in HeaderSets, data \in Bodies :
                  test_request_call(url, headers, data)

(***************************************************************************)
(* The rules editor of the GUI: a rule is selected in the list, which      *)
(* shows what list_rules gave, its text is edited, and Save is pressed.    *)
(***************************************************************************)
\* the names the list offers for selection
SelectableRules(dir, listable) ==
  {ExistingRules(dir, listable)[i] : i \in 1..Len(ExistingRules(dir, listable))}

\* save_rule with self.current_rule selected and the editor holding content:
\* self.waf_manager.add_rule(content, self.current_rule)
save_rule_call(content, current_rule) ==
  \E res \in {add_rule_result(fs, dir_listable, content, current_rule)} :
  LET call == [Call("save_rule") EXCEPT !.name = current_rule]
  IN  /\ Cardinality(DOMAIN res.fs) <= MaxFiles
      /\ fs' = res.fs
      /\ rules' \in (IF res.ok THEN Reloaded(rules, res.fs, dir_listable) ELSE {rules})
      /\ last' = IF res.raised THEN Raised(call, res.msg)
                 ELSE Returned(call, res.ok, res.msg)
      /\ UNCHANGED <<dir_listable, adders, racers>>

save_rule ==
  \E current_rule \in SelectableRules(fs, dir_listable), content \in Contents :
    save_rule_call(content, current_rule)

(***************************************************************************)
(* get_logs : the last lines of the audit log, "No logs available" when    *)
(* the file does not exist; the manager itself never writes that file.     *)
(***************************************************************************)
get_logs ==
  /\ \E logged \in BOOLEAN :
       last' = Returned(Call("get_logs"), TRUE,
                        IF logged THEN "log lines" ELSE "No logs available")
  /\ UNCHANGED <<fs, rules, dir_listable, adders, racers>>

(***************************************************************************)
(* The environment: the permission to list the rules directory is taken    *)
(* away or given back (chmod -r / +r); files in it stay reachable by name. *)
(***************************************************************************)
chmod ==
  /\ dir_listable' = ~dir_listable
  /\ last' = Call("chmod")
  /\ UNCHANGED <<fs, rules, adders, racers>>

Next ==
  \/ start_waf
  \/ stop_waf
  \/ list_rules
  \/ get_rule_content
  \/ add_rule
  \/ remove_rule
  \/ save_rule
  \/ test_request
  \/ get_logs
  \/ chmod

Spec == Init /\ [][Next]_vars

(***************************************************************************)
(* Concurrent adds: the managers of two processes share the rules          *)
(* directory and each runs add_rule once, for the same rule name.  The     *)
(* steps of a call are its system calls on the directory: the duplicate    *)
(* check with the validation around it, the opening of the temporary       *)
(* file, the write through the open descriptor, the existence re-check,    *)
(* the rename or the removal of the temporary file, the exception handler, *)
(* and the reload.  A descriptor refers to the file, not to its name: it   *)
(* follows the file when another process renames it (fd "target") and      *)
(* keeps it when another process removes or replaces it (fd "unlinked").   *)
(***************************************************************************)
\* The names and contents the concurrent callers give.  Each content is the
\* start of the longer ones, so that a short text written over a long one
\* from the start of the file is a whole number of tokens.
ConcNames == PlainNames \cup {<<"a", ".conf">>}
K_two == <<"evil", "\n", "bad">>
K_three == <<"evil", "\n", "bad", "\n", "evil">>
ConcContents == {K_evil, K_two, K_three}

\* lines 141-161: what stops the call before anything is written; msg is ""
\* when nothing does
add_rule_checks(dir, listable, rule_content, rule_name) ==
  IF Strip(rule_name) = <<>>
  THEN [raised |-> TRUE, msg |-> "Rule name must be a non-empty string"]
  ELSE IF HasTraversal(rule_name)
  THEN [raised |-> TRUE, msg |-> "Invalid rule name: cannot contain path traversal characters"]
  ELSE IF IsDuplicate(rule_name, ExistingRules(dir, listable))
  THEN [raised |-> FALSE, msg |-> "A rule named ... already exists"]
  ELSE IF Strip(rule_content) = <<>>
  THEN [raised |-> FALSE, msg |-> "Rule content cannot be empty"]
  ELSE IF ~Compiles(rule_content)
  THEN [raised |-> FALSE, msg |-> "Invalid regex pattern"]
  ELSE [raised |-> FALSE, msg |-> ""]

\* temp_path = f"{rule_path}.tmp"
TempPath(rule_name) == AddPath(rule_name) \o <<".tmp">>

\* os.path.exists(rule_path), the check before the rename
TargetExists(dir, rule_name) == Exists(dir, AddPath(rule_name))

\* os.rename(temp_path, rule_path): the target is replaced if it exists
Renamed(dir, rule_name) ==
  RemoveFile(WriteFile(dir, AddPath(rule_name), dir[TempPath(rule_name)]), TempPath(rule_name))

\* f.write at offset 0 of a file that holds old text: what lies beyond the
\* new text stays
Overlay(old, new) == new \o SubSeq(old, Len(new) + 1, Len(old))

\* the descriptors after the temporary file was renamed onto the rule's path
\* (the file that had that path is unlinked), or after it was removed
FollowRename(fd) == IF fd = "temp" THEN "target" ELSE IF fd = "target" THEN "unlinked" ELSE fd
FollowRemove(fd) == IF fd = "temp" THEN "unlinked" ELSE fd

\* the call of manager m moves on to pc
Goto(m, pc) == [adders EXCEPT ![m].pc = pc]
\* the call of manager m returns (ok, msg)
Return(m, ok, msg) == [adders EXCEPT ![m].pc = "done", ![m].ok = ok, ![m].msg = msg]

InitConc ==
  /\ fs = EmptyDir
  /\ dir_listable = TRUE
  /\ rules = initialize_waf(EmptyDir, TRUE, <<>>).rules
  /\ last = NoCall
  /\ racers = NoRacers
  /\ \E rule_name \in ConcNames :
       adders \in [Managers -> {Adder("check", c, rule_name) : c \in ConcContents}]

\* lines 141-170: the name checks, the duplicate check and the validation
check_rule(m) ==
  /\ adders[m].pc = "check"
  /\ \E res \in {add_rule_checks(fs, dir_listable, adders[m].rule_content,
                                  adders[m].rule_name)} :
       adders' = IF res.msg = "" THEN Goto(m, "open")
                 ELSE [Return(m, FALSE, res.msg) EXCEPT ![m].raised = res.raised]
  /\ UNCHANGED <<fs, rules, dir_listable, last, racers>>

\* line 175: open(temp_path, 'w') creates the temporary file or truncates it
open_temp(m) ==
  /\ adders[m].pc = "open"
  /\ fs' = WriteFile(fs, TempPath(adders[m].rule_name), <<>>)
  /\ adders' = [Goto(m, "write") EXCEPT ![m].fd = "temp"]
  /\ UNCHANGED <<rules, dir_listable, last, racers>>

\* lines 176-178: f.write, f.flush, os.fsync and the close, on the file the
\* descriptor refers to
write_temp(m) ==
  /\ adders[m].pc = "write"
  /\ \E file \in {IF adders[m].fd = "temp" THEN TempPath(adders[m].rule_name)
                   ELSE AddPath(adders[m].rule_name)} :
       fs' = IF adders[m].fd = "unlinked" THEN fs
             ELSE WriteFile(fs, file, Overlay(fs[file], adders[m].rule_content))
  /\ adders' = [Goto(m, "recheck") EXCEPT ![m].fd = "closed"]
  /\ UNCHANGED <<rules, dir_listable, last, racers>>

\* line 181: if os.path.exists(rule_path)
recheck_exists(m) ==
  /\ adders[m].pc = "recheck"
  /\ adders' = Goto(m, IF TargetExists(fs, adders[m].rule_name) THEN "discard" ELSE "rename")
  /\ UNCHANGED <<fs, rules, dir_listable, last, racers>>

\* lines 182-183: os.remove(temp_path) and the failure is returned; a
\* temporary file that is gone raises FileNotFoundError
discard_temp(m) ==
  /\ adders[m].pc = "discard"
  /\ IF Exists(fs, TempPath(adders[m].rule_name))
     THEN /\ fs' = RemoveFile(fs, TempPath(adders[m].rule_name))
          /\ adders' = [o \in Managers |->
                          [Return(m, FALSE, "Rule ... was created by another process")[o]
                             EXCEPT !.fd = FollowRemove(adders[o].fd)]]
     ELSE /\ fs' = fs
          /\ adders' = Goto(m, "except")
  /\ UNCHANGED <<rules, dir_listable, last, racers>>

\* line 185: os.rename(temp_path, rule_path); a temporary file that is gone
\* raises FileNotFoundError
rename_temp(m) ==
  /\ adders[m].pc = "rename"
  /\ IF Exists(fs, TempPath(adders[m].rule_name))
     THEN /\ fs' = Renamed(fs, adders[m].rule_name)
          /\ adders' = [o \in Managers |->
                          [Goto(m, "reload")[o] EXCEPT !.fd = FollowRename(adders[o].fd)]]
     ELSE /\ fs' = fs
          /\ adders' = Goto(m, "except")
  /\ UNCHANGED <<rules, dir_listable, last, racers>>

\* lines 187-193: the manager, which is running, reloads its rules and
\* returns success
reload_rules(m) ==
  /\ adders[m].pc = "reload"
  /\ \E r \in Reloaded(adders[m].rules, fs, dir_listable) :
       adders' = [Return(m, TRUE, "Rule ... added successfully") EXCEPT ![m].rules = r]
  /\ UNCHANGED <<fs, rules, dir_listable, last, racers>>

\* lines 195-202: except (IOError, OSError): the temporary file is removed
\* if it exists and the failure is returned
handle_error(m) ==
  /\ adders[m].pc = "except"
  /\ IF Exists(fs, TempPath(adders[m].rule_name))
     THEN /\ fs' = RemoveFile(fs, TempPath(adders[m].rule_name))
          /\ adders' = [o \in Managers |->
                          [Return(m, FALSE, "Failed to add rule")[o]
                             EXCEPT !.fd = FollowRemove(adders[o].fd)]]
     ELSE /\ fs' = fs
          /\ adders' = Return(m, FALSE, "Failed to add rule")
  /\ UNCHANGED <<rules, dir_listable, last, racers>>

NextConc ==
  \E m \in Managers :
    \/ check_rule(m)
    \/ open_temp(m)
    \/ write_temp(m)
    \/ recheck_exists(m)
    \/ discard_temp(m)
    \/ rename_temp(m)
    \/ reload_rules(m)
    \/ handle_error(m)

SpecConc == InitConc /\ [][NextConc]_vars

(***************************************************************************)
(* Readers and removers: while the managers of two processes remove the    *)
(* same rule, a third reads its content and a fourth loads the rules       *)
(* (start_waf, or the reload after a change).  The steps of a call are its *)
(* system calls on the directory.  The existence checks that resolve a     *)
(* name are one step: files are only removed here, so that checking two    *)
(* paths at one moment gives what checking them one after the other gives. *)
(***************************************************************************)
\* The files of the directory at the start, and the directories made of them.
RaceDir == (<<"a", ".conf">> :> K_evil) @@ (<<"a", ".rule">> :> K_mixed)
RaceDirs == {[f \in files |-> RaceDir[f]] : files \in (SUBSET DOMAIN RaceDir) \ {{}}}
\* The names the removers and the reader give.
RaceNames == {<<"a">>, <<"a", ".rule">>}

\* remove_rule in progress: the path it resolved, the manager's own
\* self.rules, and what the call gave back
Remover(rule_name) ==
  [pc |-> "check", rule_name |-> rule_name, rule_path |-> <<>>,
   rules |-> initialize_waf(EmptyDir, TRUE, <<>>).rules,
   raised |-> FALSE, ok |-> FALSE, msg |-> ""]
\* get_rule_content in progress: missed says that the file was gone at the
\* open
Getter(rule_name) ==
  [pc |-> "resolve", rule_name |-> rule_name, rule_path |-> <<>>,
   raised |-> FALSE, missed |-> FALSE, result |-> <<>>]
\* _initialize_waf in progress: rule_files still to read, self.rules so far
Loader ==
  [pc |-> "list", rule_files |-> <<>>, skipped |-> {}, rules |-> NoneRules,
   raised |-> FALSE, ok |-> FALSE]

InitRace ==
  /\ fs \in RaceDirs
  /\ dir_listable = TRUE
  /\ rules = initialize_waf(EmptyDir, TRUE, <<>>).rules
  /\ last = NoCall
  /\ adders = NoAdders
  /\ \E rm_name \in RaceNames, get_name \in RaceNames :
       racers = [rm |-> [m \in Managers |-> Remover(rm_name)],
                 get |-> Getter(get_name), load |-> Loader]

\* lines 213-229: the name check and the path of the file to delete
rm_check(m) ==
  /\ racers.rm[m].pc = "check"
  /\ \E res \in {remove_rule_result(fs, racers.rm[m].rule_name)} :
       racers' = IF res.ok
                 THEN [racers EXCEPT !.rm[m].pc = "unlink",
                         !.rm[m].rule_path = RemovePath(fs, racers.rm[m].rule_name)]
                 ELSE [racers EXCEPT !.rm[m].pc = "done", !.rm[m].msg = res.msg]
  /\ UNCHANGED <<fs, rules, dir_listable, last, adders>>

\* line 232: os.remove(rule_path); a file that is gone raises
\* FileNotFoundError, which lines 242-244 turn into a failure
rm_unlink(m) ==
  /\ racers.rm[m].pc = "unlink"
  /\ IF Exists(fs, racers.rm[m].rule_path)
     THEN /\ fs' = RemoveFile(fs, racers.rm[m].rule_path)
          /\ racers' = [racers EXCEPT !.rm[m].pc = "reload"]
     ELSE /\ fs' = fs
          /\ racers' = [racers EXCEPT !.rm[m].pc = "done",
                          !.rm[m].msg = "Failed to remove rule"]
  /\ UNCHANGED <<rules, dir_listable, last, adders>>

\* lines 234-240: the manager, which is running, reloads and returns success
rm_reload(m) ==
  /\ racers.rm[m].pc = "reload"
  /\ \E r \in Reloaded(racers.rm[m].rules, fs, dir_listable) :
       racers' = [racers EXCEPT !.rm[m].pc = "done", !.rm[m].rules = r,
                    !.rm[m].ok = TRUE, !.rm[m].msg = "Rule ... removed successfully"]
  /\ UNCHANGED <<fs, rules, dir_listable, last, adders>>

\* lines 277-285: the path the name stands for
get_resolve ==
  /\ racers.get.pc = "resolve"
  /\ LET rule_name == racers.get.rule_name
         rule_path == IF EndsWithExt(rule_name) THEN rule_name
                      ELSE IF Exists(fs, rule_name \o <<".conf">>)
                      THEN rule_name \o <<".conf">>
                      ELSE rule_name \o <<".rule">>
     IN  racers' = IF rule_name = <<>>
                   THEN [racers EXCEPT !.get.pc = "done"]
                   ELSE [racers EXCEPT !.get.pc = "exists", !.get.rule_path = rule_path]
  /\ UNCHANGED <<fs, rules, dir_listable, last, adders>>

\* lines 287-288: if not os.path.exists(rule_path): return ""
get_exists ==
  /\ racers.get.pc = "exists"
  /\ racers' = [racers EXCEPT
                  !.get.pc = IF Exists(fs, racers.get.rule_path) THEN "read" ELSE "done"]
  /\ UNCHANGED <<fs, rules, dir_listable, last, adders>>

get_rule_content_read_uncaught(dir, rule_path) ==
  IF Exists(dir, rule_path)
  THEN [raised |-> FALSE, result |-> ReadText(dir[rule_path])]
  ELSE [raised |-> TRUE, result |-> <<>>]

\* lines 290-295: open and read; the FileNotFoundError of a file that is gone
\* is caught and "" returned
get_rule_content_read(dir, rule_path) ==
  IF Exists(dir, rule_path)
  THEN [raised |-> FALSE, result |-> ReadText(dir[rule_path])]
  ELSE [raised |-> FALSE, result |-> <<>>]

get_read ==
  /\ racers.get.pc = "read"
  /\ \E res \in {get_rule_content_read(fs, racers.get.rule_path)} :
       racers' = [racers EXCEPT !.get.pc = "done", !.get.raised = res.raised,
                    !.get.result = res.result,
                    !.get.missed = ~Exists(fs, racers.get.rule_path)]
  /\ UNCHANGED <<fs, rules, dir_listable, last, adders>>

\* the listed names that end in .conf or .rule
RECURSIVE RuleFiles(_)
RuleFiles(listing) ==
  IF listing = <<>> THEN <<>>
  ELSE IF EndsWithExt(Head(listing)) THEN <<Head(listing)>> \o RuleFiles(Tail(listing))
  ELSE RuleFiles(Tail(listing))

\* lines 37, 62-68: self.rules = [], and the rule files os.listdir gives
load_list ==
  /\ racers.load.pc = "list"
  /\ \E listing \in ListDir(fs) :
       racers' = [racers EXCEPT !.load.pc = "file", !.load.rules = ListRules(<<>>),
                    !.load.rule_files = RuleFiles(listing)]
  /\ UNCHANGED <<fs, rules, dir_listable, last, adders>>

\* lines 70-84: the next rule file is opened and its lines loaded; the
\* FileNotFoundError of a file that is gone is caught and the file skipped
load_file ==
  /\ racers.load.pc = "file"
  /\ racers.load.rule_files # <<>>
  /\ LET rule_file == Head(racers.load.rule_files)
     IN  racers' =
           IF Exists(fs, rule_file)
           THEN [racers EXCEPT !.load.rule_files = Tail(@),
                   !.load.rules = ListRules(@.items \o LoadFile(fs, rule_file))]
           ELSE [racers EXCEPT !.load.rule_files = Tail(@),
                   !.load.skipped = @ \cup {rule_file}]
  /\ UNCHANGED <<fs, rules, dir_listable, last, adders>>

\* lines 86-87: return True
load_done ==
  /\ racers.load.pc = "file"
  /\ racers.load.rule_files = <<>>
  /\ racers' = [racers EXCEPT !.load.pc = "done", !.load.ok = TRUE]
  /\ UNCHANGED <<fs, rules, dir_listable, last, adders>>

NextRace ==
  \/ \E m \in Managers : rm_check(m) \/ rm_unlink(m) \/ rm_reload(m)
  \/ get_resolve
  \/ get_exists
  \/ get_read
  \/ load_list
  \/ load_file
  \/ load_done

SpecRace == InitRace /\ [][NextRace]_vars

(***************************************************************************)
(* Inspection: _check_patterns and test_request are functions of the       *)
(* loaded rules and of the request.  The manager has loaded the rules of a *)
(* directory, or is stopped, and requests of every shape are inspected.    *)
(***************************************************************************)
\* The directories the rules are loaded from.
InspectDirs ==
  { EmptyDir,
    (<<"a", ".conf">> :> K_evil),
    (<<"a", ".conf">> :> K_cr),
    (<<"a", ".conf">> :> K_mixed) @@ (<<"A", ".rule">> :> K_cr) }
\* headers: none, one, and two whose order shows
InspectHeaders ==
  HeaderSets \cup
  { << [name |-> "X-A", value |-> <<"bad">>], [name |-> "X-B", value |-> <<"evil">>] >>,
    << [name |-> "X-B", value |-> <<"evil">>], [name |-> "X-A", value |-> <<"bad">>] >> }
\* the values _check_patterns is given: the parts of the requests, and ""
Targets ==
  Urls \cup Bodies \cup
  { <<"X-A", ": ", "bad", " ", "EVIL", "?id=1 OR 1=1">>,
    <<"../etc/passwd", " ", "?id=1 OR 1=1", " ", "<script>x</script>", " ", "EVIL",
      " ", "bad">> }

InitInspect ==
  /\ fs \in InspectDirs
  /\ dir_listable = TRUE
  /\ rules \in {NoneRules} \cup {initialize_waf(fs, TRUE, listing).rules : listing \in ListDir(fs)}
  /\ last = NoCall
  /\ adders = NoAdders
  /\ racers = NoRacers

\* test_request on a request of any of the shapes
inspect_request ==
  \E url \in Urls, headers \in InspectHeaders, data \in Bodies :
    test_request_call(url, headers, data)

\* self._check_patterns(value)
check_patterns_call(value) ==
  /\ last' = [op |-> "_check_patterns", value |-> value,
               matches |-> check_patterns(rules, value)]
  /\ UNCHANGED <<fs, rules, dir_listable, adders, racers>>

check_value == \E value \in Targets : check_patterns_call(value)

NextInspect == inspect_request \/ check_value

SpecInspect == InitInspect /\ [][NextInspect]_vars

(***************************************************************************)
(* Properties.                                                             *)
(***************************************************************************)
\* what list() may return in the directory dir, when it can be listed
Listings(dir) == {list_rules_result(TRUE, listing) : listing \in ListDir(dir)}

\* C1: status() is false on a freshly constructed manager, true after a
\* start() that succeeded, and false after stop().
C1_StatusReflectsLifecycle ==
  /\ last.op = "__init__" => ~get_status
  /\ last.op = "start_waf" /\ last.ok => get_status
  /\ last.op = "stop_waf" => ~get_status

\* C2: from Running, stop() succeeds and discards the loaded rule-set; from
\* Stopped, with the rules directory listable, start() succeeds and loads the
\* rules of the files now in the store.  Every step is checked, so this holds
\* for every stop/start cycle.
C2_StopStartCycle ==
  [][ /\ last'.op = "stop_waf" /\ get_status
           => last'.ok /\ rules' = NoneRules /\ ~get_status' /\ fs' = fs
      /\ last'.op = "start_waf" /\ ~get_status /\ dir_listable
           => /\ last'.ok /\ get_status' /\ fs' = fs
              /\ \E listing \in ListDir(fs) : rules'.items = LoadFiles(fs, listing)
    ]_vars

\* a start() has succeeded, which takes a stop() before it, and has loaded rules
C2_Witness == last.op = "start_waf" /\ last.ok /\ rules.items # <<>>

\* C3: start() while Running fails with "already running" and changes neither
\* the lifecycle state, nor the loaded rule-set, nor the store.
C3_StartWhileRunning ==
  [][ last'.op = "start_waf" /\ get_status
        => /\ ~last'.ok /\ last'.msg = "WAF is already running"
           /\ rules' = rules /\ fs' = fs
    ]_vars

\* start() was rejected in a state where a reload would have emptied the
\* loaded rule-set
C3_Witness ==
  /\ last.op = "start_waf" /\ last.msg = "WAF is already running"
  /\ ~dir_listable /\ rules.items # <<>>

\* C4: a start() from Stopped whose rule load fails returns failure and
\* leaves the engine Stopped; only a start() that succeeds makes it Running.
C4_FailedStartStaysStopped ==
  [][ /\ last'.op = "start_waf" /\ ~get_status /\ ~last'.ok => ~get_status'
      /\ ~get_status /\ get_status' => last'.op = "start_waf" /\ last'.ok
    ]_vars

\* C5: stop() while Stopped reports failure and leaves the engine Stopped.
C5_StopWhileStopped ==
  [][ last'.op = "stop_waf" /\ ~get_status => ~last'.ok /\ ~get_status' ]_vars

\* C6: while Stopped, test() of every request raises "WAF is not running",
\* returns no verdict, and changes neither the lifecycle state nor the store.
C6_TestWhileStopped ==
  [][ ~get_status =>
        \A url \in Urls, headers \in HeaderSets, data \in Bodies :
          test_request_call(url, headers, data)
            => /\ last'.raised /\ last'.msg = "WAF is not running"
               /\ last'.verdict = NoVerdict
               /\ rules' = rules /\ fs' = fs
    ]_vars

\* test() was refused while Stopped, with rules in the store
C6_Witness ==
  /\ last.op = "test_request" /\ last.raised /\ last.msg = "WAF is not running"
  /\ ~get_status /\ fs # EmptyDir

\* C7: after add(content, n) succeeds, list() holds n exactly once and
\* getContent(n) is content.
C7_AddThenListAndGet ==
  [][ \A rule_content \in Contents, rule_name \in RuleNames :
        add_rule_call(rule_content, rule_name) /\ last'.ok /\ dir_listable
          => /\ \A listed \in Listings(fs') : Count(listed, rule_name) = 1
             /\ get_rule_content_result(fs', rule_name) = rule_content
    ]_vars

\* C8: an add that follows a successful add of the same name, with valid
\* content, fails as a duplicate and leaves the store as it was.
C8_SecondAddIsDuplicate ==
  [][ \A rule_content \in GoodContents, rule_name \in RuleNames :
        /\ last.op = "add_rule" /\ last.ok /\ last.name = rule_name
        /\ dir_listable
        /\ add_rule_call(rule_content, rule_name)
        => /\ ~last'.ok /\ ~last'.raised
           /\ last'.msg = "A rule named ... already exists"
           /\ fs' = fs
    ]_vars

\* C9: no two stored rule files have the same name once the extension is
\* removed and case is ignored.
C9_NamesUnique ==
  \A f, g \in DOMAIN fs :
    /\ EndsWithExt(f) /\ EndsWithExt(g)
    /\ Lower(SplitExt(f)) = Lower(SplitExt(g))
    => f = g

\* no rule file is stored for the name, under either suffix
NoRuleFile(dir, rule_name) ==
  LET base == IF EndsWithExt(rule_name) THEN SplitExt(rule_name) ELSE rule_name
  IN  ~Exists(dir, base \o <<".conf">>) /\ ~Exists(dir, base \o <<".rule">>)

\* C10: after remove(n) succeeds list() does not hold n; remove of a name
\* no rule file is stored for fails with "Rule not found" and leaves the
\* store as it was.
C10_RemoveThenList ==
  [][ \A rule_name \in RuleNames :
        remove_rule_call(rule_name) /\ Strip(rule_name) # <<>>
          => /\ last'.ok /\ dir_listable
                  => \A listed \in Listings(fs') : ~InList(rule_name, listed)
             /\ NoRuleFile(fs, rule_name)
                  => ~last'.ok /\ last'.msg = "Rule not found" /\ fs' = fs
    ]_vars

\* C11: add_rule with a name that contains "..", "/" or "\" raises the
\* path-traversal ValueError and writes nothing: the rules directory (rule
\* files and temporary files alike) and the loaded rules are what they were.
C11_TraversalNameRejected ==
  [][(last'.op = "add_rule" /\ last'.name \in TraversalNames)
       => /\ last'.raised
          /\ last'.msg = "Invalid rule name: cannot contain path traversal characters"
          /\ fs' = fs
          /\ rules' = rules]_vars

\* a traversal name was rejected while rules were stored and loaded
C11_Witness ==
  /\ last.op = "add_rule"
  /\ last.name \in TraversalNames
  /\ last.raised
  /\ fs # EmptyDir
  /\ get_status
  /\ rules.items # <<>>

\* the name passes the checks add_rule makes before it looks at the content
NameAccepted(dir, listable, rule_name) ==
  /\ Strip(rule_name) # <<>>
  /\ rule_name \notin TraversalNames
  /\ ~IsDuplicate(rule_name, ExistingRules(dir, listable))

\* C12: add_rule with content that is empty, blank or does not compile never
\* succeeds and creates no file: the rules directory and the loaded rules are
\* the same after the call.  When the name passes the name and duplicate
\* checks, which come first, the call returns the content's validation error.
C12_BadContentRejected ==
  [][last'.op = "add_rule" =>
       \A rule_content \in BadContents :
         add_rule_call(rule_content, last'.name)
         => /\ ~last'.ok
            /\ fs' = fs
            /\ rules' = rules
            /\ NameAccepted(fs, dir_listable, last'.name)
                 => /\ ~last'.raised
                    /\ last'.msg \in {"Rule content cannot be empty", "Invalid regex pattern"}]_vars

\* a pattern that does not compile was rejected while rules were stored and
\* loaded
C12_Witness ==
  /\ last.op = "add_rule"
  /\ last.msg = "Invalid regex pattern"
  /\ fs # EmptyDir
  /\ get_status
  /\ rules.items # <<>>

\* the dict test_request returned has the key, with this value
Has(verdict, key, value) == key \in verdict.keys /\ verdict[key] = value

\* C13: every verdict test_request returns is self-consistent: blocked iff
\* matched_rules is not empty, score is the number of matched rules, and
\* action is DENY when blocked and PASS when not blocked.
C13_VerdictConsistent ==
  (last.op = "test_request" /\ ~last.raised) =>
    LET v == last.verdict
    IN  /\ "blocked" \in v.keys /\ "matched_rules" \in v.keys
        /\ v.blocked <=> (v.matched_rules # <<>>)
        /\ Has(v, "score", Len(v.matched_rules))
        /\ Has(v, "action", IF v.blocked THEN "DENY" ELSE "PASS")

\* the URLs test_request cannot inspect: empty, or parsed without a scheme
\* or without a host
BadUrls == {url \in Urls : url = <<>> \/ urlparse(url).scheme = "" \/ urlparse(url).netloc = ""}

\* C14: while running, test_request with a bad URL raises nothing: it returns
\* a verdict with error set, blocked false, no matched rules and score 0; and
\* no verdict has both error set and blocked true.
C14_FailureCaptured ==
  [][(last'.op = "test_request" /\ get_status) =>
       /\ ~(last'.verdict.error # "" /\ last'.verdict.blocked)
       /\ \A url \in BadUrls, headers \in HeaderSets, data \in Bodies :
            test_request_call(url, headers, data)
            => /\ ~last'.raised
               /\ last'.verdict.error # ""
               /\ Has(last'.verdict, "blocked", FALSE)
               /\ Has(last'.verdict, "matched_rules", <<>>)
               /\ Has(last'.verdict, "score", 0)]_vars

\* the URLs that are a host with no scheme before it
BareHosts == {url \in Urls : url # <<>> /\ url[1] \in Hosts}

\* C15: while running, test_request with a bare host inspects the URL with
\* http:// put before it and returns that verdict, not a bad-URL error.
C15_BareHostCoerced ==
  [][(last'.op = "test_request" /\ get_status) =>
       \A url \in BareHosts, headers \in HeaderSets, data \in Bodies :
         test_request_call(url, headers, data)
         => /\ ~last'.raised
            /\ last'.verdict.error = ""
            /\ last'.verdict =
                 test_request_result(rules, <<"http://">> \o url, headers, data).verdict]_vars

\* the labelled pattern is among the matched rules of the verdict
Matched(verdict, label, pattern) ==
  \E j \in 1..Len(verdict.matched_rules) : verdict.matched_rules[j] = label \o pattern

\* the next test_request enforces the pattern: a URL it is found in is
\* blocked, and so is a body or a header it is found in, sent to a URL that
\* matches nothing, each with the pattern among the matched rules
Enforced(r, pattern) ==
  /\ \A url \in Urls \ BadUrls :
       Search(pattern, url) =>
         \A v \in {test_request_result(r, url, <<>>, <<>>).verdict} :
           v.blocked /\ Matched(v, <<"URL: ">>, pattern)
  /\ \A data \in Bodies :
       Search(pattern, data) =>
         \A v \in {test_request_result(r, <<"http://", "h.io", "/">>, <<>>, data).verdict} :
           v.blocked /\ Matched(v, <<"Body: ">>, pattern)
  /\ \A headers \in HeaderSets :
       \A i \in 1..Len(headers) :
         Search(pattern, headers[i].value) =>
           \A v \in {test_request_result(r, <<"http://", "h.io", "/">>, headers, <<>>).verdict} :
             v.blocked /\ Matched(v, <<"Header ", headers[i].name, ": ">>, pattern)

\* no match _check_patterns finds in a URL or a body comes from the file
NoMatchFrom(r, rule_file) ==
  \A value \in (Urls \cup Bodies) :
    \A matches \in {check_patterns(r, value)} :
      \A i \in 1..Len(matches) : matches[i].source # rule_file

Records(entry, category, rule_file) ==
  Contains(entry, <<category>>) /\ Contains(entry, rule_file)

\* C17: when the URL of a request matches a loaded custom rule, the verdict
\* test_request returns has a matched-rules entry for it that carries the
\* category custom_rule and the file the rule comes from.
C17_CustomMatchRecorded ==
  [][(last'.op = "test_request" /\ get_status) =>
       \A url \in Urls \ BadUrls, headers \in HeaderSets, data \in Bodies :
         test_request_call(url, headers, data)
         => \A i \in 1..Len(rules.items) :
              Search(rules.items[i].pattern, url)
              => \E j \in 1..Len(last'.verdict.matched_rules) :
                   Records(last'.verdict.matched_rules[j], "custom_rule", rules.items[i].file)]_vars

\* C18: saving an existing rule under its own name through the editor
\* succeeds, and the stored content of the rule becomes the edited content.
C18_SaveOverwrites ==
  [][last'.op = "save_rule" =>
       \A content \in GoodContents :
         save_rule_call(content, last'.name)
         => /\ last'.ok
            /\ get_rule_content_result(fs', last'.name) = ReadText(content)]_vars

\* the managers whose add_rule has returned success
Succeeded == {m \in Managers : adders[m].pc = "done" /\ adders[m].ok}

\* C19: when two managers add the same new rule name concurrently, then in
\* every interleaving of their steps at most one add returns success, a file
\* installed at the rule's path is never changed by the other add, and an add
\* that does not succeed returns a failure rather than raising.
C19_OneAddWins ==
  [][/\ Cardinality(Succeeded') <= 1
     /\ \A m \in Managers :
          /\ TargetExists(fs, adders[m].rule_name)
               => /\ TargetExists(fs', adders[m].rule_name)
                  /\ fs'[AddPath(adders[m].rule_name)] = fs[AddPath(adders[m].rule_name)]
          /\ (adders'[m].pc = "done" /\ ~adders'[m].ok)
               => (~adders'[m].raised /\ adders'[m].msg # "")]_vars

\* C20: when two managers add the same name concurrently with different
\* contents, the file installed by the add that returns success holds the
\* content that add was given.
C20_InstalledContentIsOwn ==
  \A m \in Succeeded :
    adders[1].rule_content # adders[2].rule_content
    => fs[AddPath(adders[m].rule_name)] = adders[m].rule_content

\* the rules loaded from the file, in the order they were loaded
LoadedFrom(items, rule_file) == SelectSeq(items, LAMBDA item : item.file = rule_file)

\* C21: a reader tolerates a rule file that a concurrent remove deletes
\* between its listing or existence check and its read: get_rule_content
\* returns "", the load skips the file, loads the files that stay, each whole,
\* and returns True, and of two concurrent removes of one file one returns a
\* failure; none of them raises.
C21_ReadersTolerateRemoval ==
  /\ racers.get.pc = "done" =>
       /\ ~racers.get.raised
       /\ racers.get.missed => racers.get.result = <<>>
       /\ racers.get.result \in {<<>>, ReadText(RaceDir[racers.get.rule_path])}
  /\ racers.load.pc = "done" =>
       /\ racers.load.ok /\ ~racers.load.raised
       /\ \A rule_file \in DOMAIN RaceDir :
            /\ LoadedFrom(racers.load.rules.items, rule_file)
                 \in {<<>>, LoadFile(RaceDir, rule_file)}
            /\ Exists(fs, rule_file) =>
                 LoadedFrom(racers.load.rules.items, rule_file) = LoadFile(RaceDir, rule_file)
            /\ rule_file \in racers.load.skipped =>
                 LoadedFrom(racers.load.rules.items, rule_file) = <<>>
  /\ \A m \in Managers :
       racers.rm[m].pc = "done" =>
         /\ ~racers.rm[m].raised
         /\ racers.rm[m].ok \/ racers.rm[m].msg \in {"Rule not found", "Failed to remove rule"}
         /\ \A o \in Managers \ {m} :
              (racers.rm[o].pc = "done" /\ racers.rm[o].rule_path = racers.rm[m].rule_path)
              => ~(racers.rm[m].ok /\ racers.rm[o].ok)

\* the file was removed after the reader's existence check, after the
\* loader's listing and after the second remover's existence check
C21_Witness ==
  /\ racers.get.pc = "done" /\ racers.get.missed
  /\ racers.load.pc = "done" /\ racers.load.skipped # {}
  /\ \E m \in Managers :
       racers.rm[m].pc = "done" /\ racers.rm[m].msg = "Failed to remove rule"

\* the URL test_request inspects: http:// is put before a URL that does not
\* start with http:// or https://
InspectedUrl(url) ==
  IF url[1] \in {"http://", "https://"} THEN url ELSE <<"http://">> \o url

\* the place in the order of targets of the part a matched-rules entry is
\* labelled with: the URL, the headers in their order, the body
Rank(entry, headers) ==
  IF entry[1] = "URL: " THEN 0
  ELSE IF entry[1] = "Header "
       THEN CHOOSE i \in 1..Len(headers) : headers[i].name = entry[2]
  ELSE Len(headers) + 1

\* the entries of the matched rules that come from the target at that place
OfRank(matched_rules, headers, k) ==
  SelectSeq(matched_rules, LAMBDA entry : Rank(entry, headers) = k)

\* C22: test_request inspects the URL, then each header in the headers'
\* order, then the body if it is not empty; matched_rules holds the matches
\* of each target in that order, each labelled with its part, and score is the
\* sum of the numbers of matches of the targets.
C22_TargetsInOrder ==
  [][(last'.op = "test_request" /\ ~last'.raised /\ last'.verdict.error = "") =>
       \A url \in Urls \ BadUrls, headers \in InspectHeaders, data \in Bodies :
         test_request_call(url, headers, data) =>
           \A mr \in {last'.verdict.matched_rules} :
             /\ \A i, j \in 1..Len(mr) : i < j => Rank(mr[i], headers) <= Rank(mr[j], headers)
             /\ OfRank(mr, headers, 0)
                  = Labelled(<<"URL: ">>, check_patterns(rules, InspectedUrl(url)))
             /\ \A k \in 1..Len(headers) :
                  OfRank(mr, headers, k)
                   = Labelled(<<"Header ", headers[k].name, ": ">>,
                              check_patterns(rules, <<headers[k].name, ": ">> \o headers[k].value))
             /\ OfRank(mr, headers, Len(headers) + 1)
                  = IF data = <<>> THEN <<>>
                    ELSE Labelled(<<"Body: ">>, check_patterns(rules, data))
             /\ last'.verdict.score
                  = Len(check_patterns(rules, InspectedUrl(url)))
                    + Len(HeaderMatches(rules, headers))
                    + (IF data = <<>> THEN 0 ELSE Len(check_patterns(rules, data)))]_vars

\* a verdict with a match in the URL, then in a header X-B, then in a header
\* X-A, then in the body
C22_Witness ==
  /\ last.op = "test_request"
  /\ \E i, j, k, l \in 1..Len(last.verdict.matched_rules) :
       /\ i < j /\ j < k /\ k < l
       /\ last.verdict.matched_rules[i][1] = "URL: "
       /\ SubSeq(last.verdict.matched_rules[j], 1, 2) = <<"Header ", "X-B">>
       /\ SubSeq(last.verdict.matched_rules[k], 1, 2) = <<"Header ", "X-A">>
       /\ last.verdict.matched_rules[l][1] = "Body: "

\* every pattern _check_patterns goes through, in its order: the catalogue,
\* then the loaded rules when there are any
Candidates(r) ==
  [i \in 1..Len(patterns) |->
     [category |-> patterns[i].category, pattern |-> <<patterns[i].pattern>>, source |-> <<>>]]
  \o (IF r.is_none THEN <<>>
      ELSE [i \in 1..Len(r.items) |->
              [category |-> "custom_rule", pattern |-> r.items[i].pattern,
               source |-> r.items[i].file]])

\* the candidate is found in the lowercased value, which is not empty
Found(candidate, value) ==
  IF value = <<>> THEN FALSE
  ELSE IF candidate.category = "custom_rule" THEN Search(candidate.pattern, Lower(value))
  ELSE BuiltinSearch(candidate.pattern[1], Lower(value))

\* the match record is the one of the candidate
RecordOf(match, candidate) ==
  /\ match.category = candidate.category
  /\ match.pattern = candidate.pattern
  /\ match.source = candidate.source

\* C23: _check_patterns returns one record for each pattern found in the
\* value, the built-in ones first, by category (sqli, xss, path_traversal) and
\* within a category in catalogue order, then the custom rules in the order
\* they were loaded; it changes nothing, so that the same value gives the same
\* records again; the empty value gives no record.
C23_CheckOrder ==
  [][last'.op = "_check_patterns" =>
       \A ms \in {last'.matches} :
         \A found \in {SelectSeq(Candidates(rules),
                                LAMBDA candidate : Found(candidate, last'.value))} :
           /\ last'.value = <<>> => ms = <<>>
           /\ Len(ms) = Len(found)
           /\ \A i \in 1..Len(ms) : RecordOf(ms[i], found[i])
           /\ rules' = rules
           /\ ms = check_patterns(rules', last'.value)]_vars

\* a value in which a pattern of each built-in category and rules of two
\* files were found
C23_Witness ==
  /\ last.op = "_check_patterns"
  /\ \E i, j, k, l, n \in 1..Len(last.matches) :
       /\ last.matches[i].category = "sqli"
       /\ last.matches[j].category = "xss"
       /\ last.matches[k].category = "path_traversal"
       /\ last.matches[l].category = "custom_rule"
       /\ last.matches[n].category = "custom_rule"
       /\ last.matches[l].source # last.matches[n].source

\* the line of a rule file, stripped, is a pattern: not blank, not a comment,
\* and it compiles
IsPattern(line) ==
  /\ Strip(line) # <<>>
  /\ Head(Strip(line)) # "#"
  /\ Compiles(Strip(line))

\* the patterns of a rule file's bytes, in file order
PatternsOf(bytes) ==
  LET kept == SelectSeq(SplitLines(ReadText(bytes)), IsPattern)
  IN  [i \in 1..Len(kept) |-> Strip(kept[i])]

\* C24: a load (start_waf, or the reload after add_rule or remove_rule on a
\* running manager) of a listable directory succeeds, and loads from each
\* rule file exactly its non-blank, non-comment, compilable lines, in file
\* order: a line that does not compile is the only thing skipped.
C24_BadLinesSkipped ==
  [][(/\ last'.op \in {"start_waf", "add_rule", "remove_rule"}
      /\ last'.ok /\ get_status' /\ dir_listable) =>
       /\ \A i \in 1..Len(rules'.items) : Exists(fs', rules'.items[i].file)
       /\ \A rule_file \in DOMAIN fs' :
            EndsWithExt(rule_file) =>
              \A loaded \in {LoadedFrom(rules'.items, rule_file)},
                 wanted \in {PatternsOf(fs'[rule_file])} :
                /\ Len(loaded) = Len(wanted)
                /\ \A i \in 1..Len(loaded) : loaded[i].pattern = wanted[i]]_vars

\* a file with lines that do not compile and another file are both loaded
C24_Witness ==
  /\ last.op = "start_waf" /\ last.ok
  /\ \E f, g \in DOMAIN fs :
       /\ f # g
       /\ fs[f] = K_mixed
       /\ LoadedFrom(rules.items, f) # <<>>
       /\ LoadedFrom(rules.items, g) # <<>>

\* the loaded items are the patterns of exactly the rule files of dir
SnapshotOf(items, dir) ==
  /\ \A i \in 1..Len(items) : Exists(dir, items[i].file)
  /\ \A rule_file \in DOMAIN dir :
       EndsWithExt(rule_file) =>
         LET loaded == LoadedFrom(items, rule_file)
         IN  [i \in 1..Len(loaded) |-> loaded[i].pattern] = PatternsOf(dir[rule_file])

\* C25: with one manager as the only writer of the rules directory, after
\* every completed operation the engine is Stopped or its loaded rule-set is
\* the compilable patterns of exactly the rule files now on disk.
C25_SnapshotNeverStale ==
  get_status => SnapshotOf(rules.items, fs)

\* C26: add_rule, remove_rule, list_rules, get_rule_content, get_logs and
\* test_request, whether they succeed, fail or raise, leave a stopped engine
\* stopped and a running engine running; so does the editor's save.
C26_OnlyStartStopChangeLifecycle ==
  [][last'.op \in {"add_rule", "remove_rule", "list_rules", "get_rule_content",
                   "get_logs", "test_request", "save_rule"}
       => (get_status' <=> get_status)]_vars

\* a rule was added while the engine was stopped, and it is still stopped
C26_Witness ==
  /\ last.op = "add_rule"
  /\ last.ok
  /\ ~get_status
  /\ fs # EmptyDir
====
